---- MODULE Spec2Model ----
(***************************************************************************)
(* cooccurringNetwork: windowed co-occurrence detection                    *)
(* (get_cooccurrences), systematic/random classification                   *)
(* (divide_cooccurrences) and weighted graph construction (create_graph).  *)
(*                                                                         *)
(* Timestamps and timedeltas are integers (pd.Timestamp - pd.Timestamp is  *)
(* a pd.Timedelta; both are totally ordered and subtract exactly).         *)
(* An Event is a record [Index, entity, time, location]; the attributes    *)
(* field always holds its default dict().  A Cooccurrence is a record      *)
(* [event, other_event, timedelta, time].                                  *)
(***************************************************************************)
EXTENDS Integers, Sequences, FiniteSets

\* ---------------------------------------------------------------- bounds
MaxEvents == 3
MaxTime == 1
MaxCoocs == 3

\* ------------------------------------------------------------ input sets
None == "None"
EntityOrder == <<"a", "b", "c">>
Entities == {"a", "b"}
Locations == {None, "x"}
Times == 0..MaxTime
Deltas == (0 - 1)..(MaxTime + 1)

VARIABLES
  events,               \* get_cooccurrences: the argument list of Events
  max_timedelta,        \* get_cooccurrences: keyword argument
  events_per_location,  \* dict in insertion order: Seq of [location, events]
  queue,                \* the deque shared by the whole scan
  copy,                 \* rest of queue.copy() still to be iterated
  loc_i,                \* position of the outer loop in events_per_location
  ev_i,                 \* position of the middle loop in the group's events
  cooccurrences,        \* detector: result list; divide/create_graph: argument
  min_timedelta,        \* divide_cooccurrences: keyword argument
  temp,                 \* divide: dict in insertion order: Seq of [identities, cooccurrences]
  temp_i,               \* divide: position of the second loop in temp
  systematic,           \* divide: first result list
  random,               \* divide: second result list
  graph,                \* create_graph: [nodes, edges, attrs]
  cooc_i,               \* create_graph: position of the fold
  pc                    \* control point of the running call

vars == <<events, max_timedelta, events_per_location, queue, copy, loc_i, ev_i,
          cooccurrences, min_timedelta, temp, temp_i, systematic, random,
          graph, cooc_i, pc>>

\* ------------------------------------------------------------ data model
Event(i, en, t, l) == [Index |-> i, entity |-> en, time |-> t, location |-> l]

Cooccurrence(e, o, td, t) ==
  [event |-> e, other_event |-> o, timedelta |-> td, time |-> t]

\* Lists of at most MaxEvents events; Index is the position in the list.
EventLists ==
  UNION { { [i \in 1..n |-> Event(i, f[i][1], f[i][2], f[i][3])] :
              f \in [1..n -> Entities \X Times \X Locations] } :
          n \in 0..MaxEvents }

\* ------------------------------------------------------ get_cooccurrences
\* Position of a location among the keys of d, 0 when it is not a key.
RECURSIVE KeyIndex(_, _, _)
KeyIndex(d, l, i) ==
  IF i > Len(d) THEN 0
  ELSE IF d[i].location = l THEN i
  ELSE KeyIndex(d, l, i + 1)

\* One iteration of the grouping loop: a new key gets an empty list, then the
\* event is appended to its location's list.
AddToLocation(d, e) ==
  LET k == KeyIndex(d, e.location, 1) IN
  IF k = 0 THEN Append(d, [location |-> e.location, events |-> <<e>>])
  ELSE [d EXCEPT ![k].events = Append(@, e)]

RECURSIVE GroupByLocation(_, _)
GroupByLocation(d, es) ==
  IF es = <<>> THEN d
  ELSE GroupByLocation(AddToLocation(d, Head(es)), Tail(es))

EmptyMap == [x \in {} |-> 0]

DetectorIdle ==
  /\ max_timedelta = 0
  /\ events_per_location = <<>>
  /\ queue = <<>>
  /\ copy = <<>>
  /\ loc_i = 0
  /\ ev_i = 0

DivideIdle ==
  /\ min_timedelta = 0
  /\ temp = <<>>
  /\ temp_i = 0
  /\ systematic = <<>>
  /\ random = <<>>

EmptyGraph == [nodes |-> EmptyMap, edges |-> EmptyMap, attrs |-> EmptyMap]

GraphIdle ==
  /\ graph = EmptyGraph
  /\ cooc_i = 0

detectorVars == <<max_timedelta, events_per_location, queue, copy,
                  loc_i, ev_i>>
divideVars == <<min_timedelta, temp, temp_i, systematic, random>>
graphVars == <<graph, cooc_i>>

\* The call get_cooccurrences(events, max_timedelta=...) is entered.
InitDetect ==
  /\ events \in EventLists
  /\ max_timedelta \in Deltas
  /\ events_per_location = <<>>
  /\ queue = <<>>
  /\ copy = <<>>
  /\ loc_i = 0
  /\ ev_i = 0
  /\ cooccurrences = <<>>
  /\ DivideIdle
  /\ GraphIdle
  /\ pc = "group"

\* The event and the window element the loops currently hold.
event == events_per_location[loc_i].events[ev_i]
other_event == Head(copy)

\* Lines 46-53: build events_per_location, then the empty result and deque.
GroupEvents ==
  /\ pc = "group"
  /\ events_per_location' = GroupByLocation(<<>>, events)
  /\ cooccurrences' = <<>>
  /\ queue' = <<>>
  /\ loc_i' = 1
  /\ ev_i' = 1
  /\ pc' = "scan"
  /\ UNCHANGED <<events, max_timedelta, copy, divideVars, graphVars>>

\* The elements of a sequence from last to first.
Reversed(seq) == [k \in 1..Len(seq) |-> seq[Len(seq) + 1 - k]]

\* The variant of line 59 that walks the deque from its newest element.
StartEventReversed ==
  /\ pc = "scan"
  /\ loc_i <= Len(events_per_location)
  /\ copy' = Reversed(queue)
  /\ pc' = "inner"
  /\ UNCHANGED <<events, max_timedelta, events_per_location, queue, loc_i, ev_i,
                 cooccurrences, divideVars, graphVars>>

\* Line 59: the inner loop starts on a copy of the deque.
StartEvent ==
  /\ pc = "scan"
  /\ loc_i <= Len(events_per_location)
  /\ copy' = queue
  /\ pc' = "inner"
  /\ UNCHANGED <<events, max_timedelta, events_per_location, queue, loc_i, ev_i,
                 cooccurrences, divideVars, graphVars>>

\* Line 60, with the variant that tells events apart by Index.
DistinctIndex(e, o) == e.Index # o.Index

DifferentEntity(e, o) == e.entity # o.entity

\* Line 62, with the variant that also asks for a positive gap.
PositiveWithinWindow(timedelta) == 0 < timedelta /\ timedelta < max_timedelta

WithinWindow(timedelta) == timedelta < max_timedelta

\* Line 60 false: same entity, nothing happens for this window element.
ExamineSkip ==
  /\ pc = "inner"
  /\ copy # <<>>
  /\ ~ DifferentEntity(event, other_event)
  /\ copy' = Tail(copy)
  /\ UNCHANGED <<events, max_timedelta, events_per_location, queue, loc_i, ev_i,
                 cooccurrences, divideVars, graphVars, pc>>

\* Lines 61-65: the gap is below max_timedelta, a Cooccurrence is appended.
ExamineEmit ==
  /\ pc = "inner"
  /\ copy # <<>>
  /\ DifferentEntity(event, other_event)
  /\ LET timedelta == event.time - other_event.time IN
       /\ WithinWindow(timedelta)
       /\ cooccurrences' =
            Append(cooccurrences,
                   Cooccurrence(event, other_event, timedelta, event.time))
  /\ copy' = Tail(copy)
  /\ UNCHANGED <<events, max_timedelta, events_per_location, queue, loc_i, ev_i,
                 divideVars, graphVars, pc>>

\* The variant of line 66 that drops the rightmost element, queue.pop().
ExamineEvictNewest ==
  /\ pc = "inner"
  /\ copy # <<>>
  /\ DifferentEntity(event, other_event)
  /\ ~ WithinWindow(event.time - other_event.time)
  /\ queue' = SubSeq(queue, 1, Len(queue) - 1)
  /\ copy' = Tail(copy)
  /\ UNCHANGED <<events, max_timedelta, events_per_location, loc_i, ev_i,
                 cooccurrences, divideVars, graphVars, pc>>

\* Line 66: the gap is not below max_timedelta, queue.popleft() drops the
\* leftmost element of the deque.
ExamineEvict ==
  /\ pc = "inner"
  /\ copy # <<>>
  /\ DifferentEntity(event, other_event)
  /\ ~ WithinWindow(event.time - other_event.time)
  /\ queue' = Tail(queue)
  /\ copy' = Tail(copy)
  /\ UNCHANGED <<events, max_timedelta, events_per_location, loc_i, ev_i,
                 cooccurrences, divideVars, graphVars, pc>>

\* Line 67: the inner loop is exhausted, the event joins the deque and the
\* loops move on to the next event (of this location, else of the next one).
AppendEvent ==
  /\ pc = "inner"
  /\ copy = <<>>
  /\ queue' = Append(queue, event)
  /\ IF ev_i < Len(events_per_location[loc_i].events)
       THEN /\ ev_i' = ev_i + 1
            /\ loc_i' = loc_i
       ELSE /\ ev_i' = 1
            /\ loc_i' = loc_i + 1
  /\ pc' = "scan"
  /\ UNCHANGED <<events, max_timedelta, events_per_location, copy,
                 cooccurrences, divideVars, graphVars>>

\* Line 68: every location has been scanned.
ReturnCooccurrences ==
  /\ pc = "scan"
  /\ loc_i > Len(events_per_location)
  /\ pc' = "done"
  /\ UNCHANGED <<events, detectorVars, cooccurrences, divideVars, graphVars>>

NextDetect ==
  \/ GroupEvents
  \/ StartEvent
  \/ ExamineSkip
  \/ ExamineEmit
  \/ ExamineEvict
  \/ AppendEvent
  \/ ReturnCooccurrences

SpecDetect == InitDetect /\ [][NextDetect]_vars

\* --------------------------------------------------- divide_cooccurrences
\* str ordering of the entity identifiers used here.
EntityRank(en) == CHOOSE i \in DOMAIN EntityOrder : EntityOrder[i] = en

\* NamedTuple ordering of Event: field by field, the first differing field
\* decides.  The attributes of every event are the default dict(), and events
\* that agree on Index, entity and time carry the same location here, so the
\* comparison never goes past time.
EventLess(a, b) ==
  IF a.Index # b.Index THEN a.Index < b.Index
  ELSE IF a.entity # b.entity THEN EntityRank(a.entity) < EntityRank(b.entity)
  ELSE IF a.time # b.time THEN a.time < b.time
  ELSE FALSE

\* NamedTuple ordering of Cooccurrence: event, other_event, timedelta, time.
CooccurrenceLess(c, d) ==
  IF c.event # d.event THEN EventLess(c.event, d.event)
  ELSE IF c.other_event # d.other_event
    THEN EventLess(c.other_event, d.other_event)
  ELSE IF c.timedelta # d.timedelta THEN c.timedelta < d.timedelta
  ELSE IF c.time # d.time THEN c.time < d.time
  ELSE FALSE

\* list.sort(): ascending and stable.
RECURSIVE Insert(_, _)
Insert(sorted, c) ==
  IF sorted = <<>> THEN <<c>>
  ELSE IF CooccurrenceLess(c, Head(sorted)) THEN <<c>> \o sorted
  ELSE <<Head(sorted)>> \o Insert(Tail(sorted), c)

RECURSIVE Sort(_)
Sort(cs) ==
  IF cs = <<>> THEN <<>>
  ELSE Insert(Sort(SubSeq(cs, 1, Len(cs) - 1)), cs[Len(cs)])

\* tuple(sorted([event.entity, other_event.entity]))
Identities(c) ==
  IF EntityRank(c.event.entity) <= EntityRank(c.other_event.entity)
    THEN <<c.event.entity, c.other_event.entity>>
    ELSE <<c.other_event.entity, c.event.entity>>

RECURSIVE TempIndex(_, _, _)
TempIndex(d, ids, i) ==
  IF i > Len(d) THEN 0
  ELSE IF d[i].identities = ids THEN i
  ELSE TempIndex(d, ids, i + 1)

\* The variant of the loop body that rebinds the list of a known key.
AddToTempRebinding(d, c) ==
  LET k == TempIndex(d, Identities(c), 1) IN
  IF k = 0
    THEN Append(d, [identities |-> Identities(c), cooccurrences |-> <<c>>])
    ELSE [d EXCEPT ![k].cooccurrences = <<c>>]

\* One iteration of the first loop of divide_cooccurrences.
AddToTemp(d, c) ==
  LET k == TempIndex(d, Identities(c), 1) IN
  IF k = 0
    THEN Append(d, [identities |-> Identities(c), cooccurrences |-> <<c>>])
    ELSE [d EXCEPT ![k].cooccurrences = Append(@, c)]

RECURSIVE GroupByIdentities(_, _)
GroupByIdentities(d, cs) ==
  IF cs = <<>> THEN d
  ELSE GroupByIdentities(AddToTemp(d, Head(cs)), Tail(cs))

\* The condition of line 95 on a sorted group.
SpansMinTimedelta(cs, mt) == cs[Len(cs)].time - cs[1].time > mt

\* Event pools: one event for every entity at every time.  Index is the
\* position in the pool; the pool lists the times in the order f, so Index
\* follows time only when f is increasing.
PoolSize == Len(EntityOrder) * (MaxTime + 1)

TimeOrders ==
  { f \in [1..(MaxTime + 1) -> Times] :
      \A i, j \in 1..(MaxTime + 1) : i # j => f[i] # f[j] }

PoolOf(f) ==
  [i \in 1..PoolSize |->
     Event(i, EntityOrder[((i - 1) % Len(EntityOrder)) + 1],
           f[((i - 1) \div Len(EntityOrder)) + 1], None)]

\* How a Cooccurrence is built from two events (lines 64-65).
Pairing(e, o) == Cooccurrence(e, o, e.time - o.time, e.time)

EntityPairs == {<<"a", "b">>, <<"b", "a">>, <<"a", "c">>}

\* The co-occurrences the classifier is fed: simultaneous events of a pool.
DivideInputs(pool) ==
  { Pairing(pool[k[1]], pool[k[2]]) : k \in
      { k \in (1..PoolSize) \X (1..PoolSize) :
          /\ <<pool[k[1]].entity, pool[k[2]].entity>> \in EntityPairs
          /\ pool[k[1]].time = pool[k[2]].time } }

ListsOver(S) == UNION { [1..n -> S] : n \in 0..MaxCoocs }

\* The call divide_cooccurrences(cooccurrences, min_timedelta=...) is entered.
InitDivide ==
  /\ events \in { PoolOf(f) : f \in TimeOrders }
  /\ cooccurrences \in ListsOver(DivideInputs(events))
  /\ min_timedelta \in (0 - 1)..MaxTime
  /\ temp = <<>>
  /\ temp_i = 0
  /\ systematic = <<>>
  /\ random = <<>>
  /\ DetectorIdle
  /\ GraphIdle
  /\ pc = "sort by identities"

\* Lines 81-90: the first loop fills temp, then both result lists are created.
SortByIdentities ==
  /\ pc = "sort by identities"
  /\ temp' = GroupByIdentities(<<>>, cooccurrences)
  /\ temp_i' = 1
  /\ systematic' = <<>>
  /\ random' = <<>>
  /\ pc' = "determine time gap"
  /\ UNCHANGED <<events, cooccurrences, min_timedelta, detectorVars, graphVars>>

\* Lines 94-96: the group is sorted in place and spans more than min_timedelta.
ExtendSystematic ==
  /\ pc = "determine time gap"
  /\ temp_i <= Len(temp)
  /\ LET sorted == Sort(temp[temp_i].cooccurrences) IN
       /\ SpansMinTimedelta(sorted, min_timedelta)
       /\ temp' = [temp EXCEPT ![temp_i].cooccurrences = sorted]
       /\ systematic' = systematic \o sorted
  /\ temp_i' = temp_i + 1
  /\ UNCHANGED <<events, cooccurrences, min_timedelta, random, detectorVars,
                 graphVars, pc>>

\* Lines 94-98: the group is sorted in place and does not span more.
ExtendRandom ==
  /\ pc = "determine time gap"
  /\ temp_i <= Len(temp)
  /\ LET sorted == Sort(temp[temp_i].cooccurrences) IN
       /\ ~ SpansMinTimedelta(sorted, min_timedelta)
       /\ temp' = [temp EXCEPT ![temp_i].cooccurrences = sorted]
       /\ random' = random \o sorted
  /\ temp_i' = temp_i + 1
  /\ UNCHANGED <<events, cooccurrences, min_timedelta, systematic, detectorVars,
                 graphVars, pc>>

\* Line 99.
ReturnDivided ==
  /\ pc = "determine time gap"
  /\ temp_i > Len(temp)
  /\ pc' = "divided"
  /\ UNCHANGED <<events, cooccurrences, divideVars, detectorVars, graphVars>>

NextDivide ==
  \/ SortByIdentities
  \/ ExtendSystematic
  \/ ExtendRandom
  \/ ReturnDivided

SpecDivide == InitDivide /\ [][NextDivide]_vars

\* ------------------------------------------------------------ create_graph
\* dict assignment d[k] = v.
Put(d, k, v) == [x \in (DOMAIN d) \cup {k} |-> IF x = k THEN v ELSE d[x]]

\* The variant of add_node that leaves an existing node alone.
add_node_if_absent(g, n, t) ==
  IF n \in DOMAIN g.nodes THEN g ELSE [g EXCEPT !.nodes = Put(@, n, t)]

\* nx.Graph.add_node(n, time=t): the node is created if absent and its time
\* attribute is set.
add_node(g, n, t) == [g EXCEPT !.nodes = Put(@, n, t)]

\* An undirected edge is keyed by the set of its end points.
EdgeKey(u, v) == {u, v}

has_edge(g, u, v) == EdgeKey(u, v) \in DOMAIN g.edges

\* The variant of add_edge that never increments.
add_edge_weight_one(g, u, v) == [g EXCEPT !.edges = Put(@, EdgeKey(u, v), 1)]

\* Lines 101-104.
add_edge(g, u, v) ==
  IF ~ has_edge(g, u, v)
    THEN [g EXCEPT !.edges = Put(@, EdgeKey(u, v), 1)]
    ELSE [g EXCEPT !.edges = Put(@, EdgeKey(u, v), g.edges[EdgeKey(u, v)] + 1)]

\* Line 108: nx.Graph(None, final_date=None).
NewGraph == [nodes |-> EmptyMap, edges |-> EmptyMap,
             attrs |-> Put(EmptyMap, "final_date", None)]

\* The variant of the fold body that stamps both nodes with the time of event.
FoldCooccurrenceEventTime(g, cooccurrence) ==
  LET u == cooccurrence.event
      v == cooccurrence.other_event
  IN add_edge(add_node(add_node(g, u.entity, u.time), v.entity, u.time),
              u.entity, v.entity)

\* Lines 110-114: the body of the fold.
FoldCooccurrence(g, cooccurrence) ==
  LET u == cooccurrence.event
      v == cooccurrence.other_event
  IN add_edge(add_node(add_node(g, u.entity, u.time), v.entity, v.time),
              u.entity, v.entity)

\* Line 115.
SetFinalDate(g, cs) == [g EXCEPT !.attrs = Put(@, "finalDate", cs[Len(cs)].time)]

RECURSIVE Fold(_, _)
Fold(g, cs) ==
  IF cs = <<>> THEN g
  ELSE Fold(FoldCooccurrence(g, Head(cs)), Tail(cs))

\* The graph create_graph returns for a non-empty list.
create_graph(cs) == SetFinalDate(Fold(NewGraph, cs), cs)

GraphPairs == EntityPairs \cup {<<"a", "a">>}

\* The co-occurrences the graph builder is fed: any two events of the pool
\* whose entities form one of GraphPairs.
GraphInputs(pool) ==
  { Pairing(pool[k[1]], pool[k[2]]) : k \in
      { k \in (1..Len(pool)) \X (1..Len(pool)) :
          /\ k[1] # k[2]
          /\ <<pool[k[1]].entity, pool[k[2]].entity>> \in GraphPairs } }

\* The pool of the graph builder's inputs: every entity at the times 0 and 1.
GraphPool ==
  [i \in 1..(2 * Len(EntityOrder)) |->
     Event(i, EntityOrder[((i - 1) % Len(EntityOrder)) + 1],
           (i - 1) \div Len(EntityOrder), None)]

\* The call create_graph(cooccurrences) is entered.
InitGraph ==
  /\ events = GraphPool
  /\ cooccurrences \in ListsOver(GraphInputs(events))
  /\ graph = EmptyGraph
  /\ cooc_i = 0
  /\ DetectorIdle
  /\ DivideIdle
  /\ pc = "new graph"

\* Line 108.
ConstructGraph ==
  /\ pc = "new graph"
  /\ graph' = NewGraph
  /\ cooc_i' = 1
  /\ pc' = "fold"
  /\ UNCHANGED <<events, cooccurrences, detectorVars, divideVars>>

\* Lines 109-114: one iteration of the loop.
AddCooccurrence ==
  /\ pc = "fold"
  /\ cooc_i <= Len(cooccurrences)
  /\ graph' = FoldCooccurrence(graph, cooccurrences[cooc_i])
  /\ cooc_i' = cooc_i + 1
  /\ UNCHANGED <<events, cooccurrences, detectorVars, divideVars, pc>>

\* Lines 115-116: the loop is over, the list has a last element.
ReturnGraph ==
  /\ pc = "fold"
  /\ cooc_i > Len(cooccurrences)
  /\ cooccurrences # <<>>
  /\ graph' = SetFinalDate(graph, cooccurrences)
  /\ pc' = "graph"
  /\ UNCHANGED <<events, cooccurrences, cooc_i, detectorVars, divideVars>>

\* The variant that returns the graph of an empty list as it stands.
ReturnEmptyGraph ==
  /\ pc = "fold"
  /\ cooc_i > Len(cooccurrences)
  /\ cooccurrences = <<>>
  /\ pc' = "graph"
  /\ UNCHANGED <<events, cooccurrences, graphVars, detectorVars, divideVars>>

\* Line 115 on an empty list: cooccurrences[-1] raises IndexError.
RaiseIndexError ==
  /\ pc = "fold"
  /\ cooc_i > Len(cooccurrences)
  /\ cooccurrences = <<>>
  /\ pc' = "IndexError"
  /\ UNCHANGED <<events, cooccurrences, graphVars, detectorVars, divideVars>>

NextGraph ==
  \/ ConstructGraph
  \/ AddCooccurrence
  \/ ReturnGraph
  \/ RaiseIndexError

SpecGraph == InitGraph /\ [][NextGraph]_vars

\* ================================================================ claims
Abs(n) == IF n < 0 THEN 0 - n ELSE n

Returned == pc = "done"

GloballyChronological ==
  \A i, j \in DOMAIN events : i < j => events[i].time <= events[j].time

ChronologicalPerLocation ==
  \A i, j \in DOMAIN events :
    (i < j /\ events[i].location = events[j].location)
      => events[i].time <= events[j].time

\* Number of returned records with the given event and other_event.
Pairings(e, o) ==
  Cardinality({ k \in DOMAIN cooccurrences :
                  cooccurrences[k].event = e /\ cooccurrences[k].other_event = o })

\* Two input positions whose events the detector has to pair.
MustPair(i, j) ==
  /\ i < j
  /\ events[i].location = events[j].location
  /\ events[i].entity # events[j].entity
  /\ Abs(events[i].time - events[j].time) < max_timedelta

\* C1: every Cooccurrence returned by get_cooccurrences pairs two events of
\* the same location group.
C1_SameLocation ==
  Returned =>
    \A k \in DOMAIN cooccurrences :
      cooccurrences[k].event.location = cooccurrences[k].other_event.location

\* C2: for globally chronological input and positive max_timedelta every
\* returned record c has 0 <= c.timedelta < max_timedelta,
\* c.timedelta = c.event.time - c.other_event.time and c.time = c.event.time.
C2_WindowCorrectness ==
  (Returned /\ GloballyChronological /\ max_timedelta > 0) =>
    \A k \in DOMAIN cooccurrences :
      LET c == cooccurrences[k] IN
        /\ 0 <= c.timedelta
        /\ c.timedelta < max_timedelta
        /\ c.timedelta = c.event.time - c.other_event.time
        /\ c.time = c.event.time

\* C3: for input chronological within each location and positive
\* max_timedelta, any two events of one location with different entities and
\* a gap below max_timedelta are paired by exactly one returned record, whose
\* event is the later one in scan order and whose other_event the earlier.
C3_Completeness ==
  (Returned /\ ChronologicalPerLocation /\ max_timedelta > 0) =>
    \A i, j \in DOMAIN events :
      MustPair(i, j) =>
        /\ Pairings(events[j], events[i]) = 1
        /\ Pairings(events[i], events[j]) = 0

\* A run on two locations in which a pair had to be found and the window
\* lost an element.
C3_Witness ==
  /\ Returned /\ ChronologicalPerLocation /\ max_timedelta > 0
  /\ Len(events_per_location) = 2
  /\ \E i, j \in DOMAIN events : MustPair(i, j)
  /\ Len(queue) < Len(events)

\* C4: no returned Cooccurrence has event.entity = other_event.entity, for
\* any input whatsoever.
C4_NoSelfPairing ==
  \A k \in DOMAIN cooccurrences :
    cooccurrences[k].event.entity # cooccurrences[k].other_event.entity

\* A run that returned records although two events of one entity met in one
\* location within the window.
C4_Witness ==
  /\ Returned
  /\ cooccurrences # <<>>
  /\ \E i, j \in DOMAIN events :
       /\ i < j
       /\ events[i].location = events[j].location
       /\ events[i].entity = events[j].entity
       /\ Abs(events[i].time - events[j].time) < max_timedelta

\* ------------------------------------------------- divide_cooccurrences
Divided == pc = "divided"

Range(seq) == { seq[k] : k \in DOMAIN seq }

\* Number of positions of seq that hold r.
Occurrences(seq, r) == Cardinality({ k \in DOMAIN seq : seq[k] = r })

\* The unordered entity pair of a record.
EntityPair(c) == {c.event.entity, c.other_event.entity}

InputPairs == { EntityPair(c) : c \in Range(cooccurrences) }

RecordsOf(pair) == { c \in Range(cooccurrences) : EntityPair(c) = pair }

\* Latest record time minus earliest record time over the records of a pair.
TrueSpan(pair) ==
  LET times == { c.time : c \in RecordsOf(pair) }
  IN (CHOOSE t \in times : \A x \in times : x <= t)
       - (CHOOSE t \in times : \A x \in times : t <= x)

\* C5: a pair whose records span more than min_timedelta (latest record time
\* minus earliest) has all its records in systematic and none in random; any
\* other pair has all its records in random and none in systematic.  Stated
\* for the thresholds that are no configuration error (min_timedelta >= 0).
C5_ClassifiedByTrueSpan ==
  (Divided /\ min_timedelta >= 0) =>
    \A pair \in InputPairs :
      IF TrueSpan(pair) > min_timedelta
        THEN /\ RecordsOf(pair) \subseteq Range(systematic)
             /\ RecordsOf(pair) \cap Range(random) = {}
        ELSE /\ RecordsOf(pair) \subseteq Range(random)
             /\ RecordsOf(pair) \cap Range(systematic) = {}

\* C6: the two returned lists together hold every input record exactly as
\* often as the input does, their lengths sum to the input length, and an
\* empty input gives two empty lists.
C6_PartitionComplete ==
  Divided =>
    /\ Len(systematic) + Len(random) = Len(cooccurrences)
    /\ \A r \in Range(cooccurrences) \cup Range(systematic) \cup Range(random) :
         Occurrences(systematic, r) + Occurrences(random, r)
           = Occurrences(cooccurrences, r)
    /\ (cooccurrences = <<>> => systematic = <<>> /\ random = <<>>)

\* Both lists are filled and one pair had several records to sort.
C6_Witness ==
  /\ Divided
  /\ systematic # <<>>
  /\ random # <<>>
  /\ \E k \in DOMAIN temp : Len(temp[k].cooccurrences) >= 2

\* ------------------------------------------------------------ create_graph
Built == pc = "graph"

\* Positions of the input records that involve entity n.
Involving(n) ==
  { k \in DOMAIN cooccurrences : n \in EntityPair(cooccurrences[k]) }

LastInvolving(n) == CHOOSE k \in Involving(n) : \A x \in Involving(n) : x <= k

\* C7: the edges of the returned graph are exactly the unordered entity pairs
\* of the input records, and the weight of an edge is the number of input
\* records of that pair, whatever their orientation.
C7_WeightIsCount ==
  Built =>
    /\ DOMAIN graph.edges = InputPairs
    /\ \A pair \in InputPairs :
         graph.edges[pair]
           = Cardinality({ k \in DOMAIN cooccurrences :
                             EntityPair(cooccurrences[k]) = pair })

\* An edge counted from both orientations next to an edge of another pair.
C7_Witness ==
  /\ Built
  /\ \E i, j \in DOMAIN cooccurrences :
       /\ cooccurrences[i].event.entity = cooccurrences[j].other_event.entity
       /\ cooccurrences[j].event.entity = cooccurrences[i].other_event.entity
       /\ cooccurrences[i].event.entity # cooccurrences[i].other_event.entity
       /\ graph.edges[EntityPair(cooccurrences[i])] = 2
  /\ Cardinality(DOMAIN graph.edges) >= 2

\* A record with event and other_event exchanged; time and timedelta stay.
Swapped(c) == [c EXCEPT !.event = c.other_event, !.other_event = c.event]

SwappedAt(cs, S) == [k \in DOMAIN cs |-> IF k \in S THEN Swapped(cs[k]) ELSE cs[k]]

DistinctEntitiesPerRecord ==
  \A k \in DOMAIN cooccurrences :
    cooccurrences[k].event.entity # cooccurrences[k].other_event.entity

\* C8: when every record has two distinct entities, exchanging event and
\* other_event in any subset of the records gives the same graph: the same
\* nodes with the same times, the same edges and weights, the same finalDate.
C8_OrientationInsensitive ==
  (Built /\ DistinctEntitiesPerRecord) =>
    \A S \in SUBSET (DOMAIN cooccurrences) :
      create_graph(SwappedAt(cooccurrences, S)) = graph

\* A graph built from several records, one of which has events at two times.
C8_Witness ==
  /\ Built /\ DistinctEntitiesPerRecord
  /\ Len(cooccurrences) >= 2
  /\ \E k \in DOMAIN cooccurrences :
       cooccurrences[k].event.time # cooccurrences[k].other_event.time

\* C9: finalDate is the time of the last list element, it is not set before
\* the fold is over, and it is the only graph-level attribute.
C9_FinalDateOnly ==
  /\ pc = "fold" => "finalDate" \notin DOMAIN graph.attrs
  /\ Built =>
       /\ DOMAIN graph.attrs = {"finalDate"}
       /\ graph.attrs["finalDate"] = cooccurrences[Len(cooccurrences)].time

\* C10 as claimed: the time of every node is the time of the event (the
\* record's time) of the last processed record that involves the entity.
C10_NodeTimeIsRecordTime ==
  Built =>
    \A n \in DOMAIN graph.nodes :
      graph.nodes[n] = cooccurrences[LastInvolving(n)].event.time

\* The time of the event through which record c involves entity n;
\* other_event is written second, so it wins when both events are of n.
OwnTime(c, n) ==
  IF c.other_event.entity = n THEN c.other_event.time ELSE c.event.time

\* C10 amended: the nodes are the entities of the records, and the time of
\* every node is the time of the entity's own event in the last processed
\* record that involves it: event.time where it is the event, other_event.time
\* where it is the other_event (and where both events are of that entity).
C10_NodeTimeIsOwnEventTime ==
  Built =>
    /\ DOMAIN graph.nodes = UNION InputPairs
    /\ \A n \in DOMAIN graph.nodes :
         graph.nodes[n] = OwnTime(cooccurrences[LastInvolving(n)], n)

\* A node last written as other_event at a time that differs both from the
\* time of the event and from what an earlier record wrote for the node.
C10_Witness ==
  /\ Built
  /\ \E n \in DOMAIN graph.nodes :
       LET last == cooccurrences[LastInvolving(n)] IN
         /\ last.other_event.entity = n
         /\ last.event.entity # n
         /\ last.other_event.time # last.event.time
         /\ \E k \in Involving(n) :
              OwnTime(cooccurrences[k], n) # OwnTime(last, n)

\* ---------------------------------------------------------- error handling
\* C11: a call of get_cooccurrences with a negative max_timedelta never
\* returns a co-occurrence list.
C11_NegativeWindowRejected == ~ (Returned /\ max_timedelta < 0)

\* C12: create_graph on an empty list ends in an error and returns no graph;
\* on a non-empty list it cannot end in an error and does not stop before it
\* has returned the graph.
C12_EmptyInputFails ==
  /\ cooccurrences = <<>> => pc # "graph"
  /\ cooccurrences # <<>> => pc # "IndexError"
  /\ pc = "IndexError" => "finalDate" \notin DOMAIN graph.attrs
  /\ pc \in {"graph", "IndexError"} \/ ENABLED NextGraph

\* The call on the empty list has ended in the error.
C12_Witness == pc = "IndexError" /\ cooccurrences = <<>>

\* C13: a call of divide_cooccurrences with a negative min_timedelta never
\* returns a systematic/random split.
C13_NegativeThresholdRejected == ~ (Divided /\ min_timedelta < 0)

\* C14: with max_timedelta = 0 the detector returns the empty list for every
\* globally chronological input.
C14_ZeroWindowEmpty ==
  (Returned /\ GloballyChronological /\ max_timedelta = 0) =>
    cooccurrences = <<>>

\* ------------------------------------------------------- the window scan
\* The events in the order the loops of lines 54-58 take them.
RECURSIVE ScanFrom(_)
ScanFrom(i) ==
  IF i > Len(events_per_location) THEN <<>>
  ELSE events_per_location[i].events \o ScanFrom(i + 1)

ScanOrder == ScanFrom(1)

ScanPosition(e) == CHOOSE i \in DOMAIN ScanOrder : ScanOrder[i] = e

RECURSIVE LenBefore(_)
LenBefore(i) ==
  IF i <= 1 THEN 0
  ELSE Len(events_per_location[i - 1].events) + LenBefore(i - 1)

\* Number of events that have been appended to the deque so far.
Appended == IF loc_i = 0 THEN 0 ELSE LenBefore(loc_i) + ev_i - 1

\* A step of the scan that takes an element out of the deque.
Removal == pc = "inner" /\ Len(queue') < Len(queue)

Removed == Head(queue)

\* C15: when the scan of an event meets a window element o of another entity
\* with a gap of at least max_timedelta, the element taken out of the window
\* in that step is o itself, which is then no longer in the window; a step
\* that meets an element of the same entity leaves the window as it is.
\* Stated for inputs of a single location, whose window holds no event of
\* another location.
C15_EvictsExamined ==
  [][ /\ (Removal /\ Len(events_per_location) = 1) =>
           /\ DifferentEntity(event, other_event)
           /\ ~ WithinWindow(event.time - other_event.time)
           /\ Removed = other_event
           /\ \A k \in DOMAIN queue' : queue'[k] # other_event
      /\ (pc = "inner" /\ copy # <<>> /\ ~ DifferentEntity(event, other_event))
           => queue' = queue ]_vars

\* The deque holds the events appended so far without a front part.
WindowIsSegment ==
  \E k \in 0..Appended : queue = SubSeq(ScanOrder, k + 1, Appended)

\* C16: for input chronological within each location and positive
\* max_timedelta, an event taken out of the window is of another (earlier
\* scanned) location or at least max_timedelta older than the event being
\* scanned; the window always is the appended events less a front part, so
\* every event is appended once and removed at most once.
C16_NoPrematureEviction ==
  [][ (ChronologicalPerLocation /\ max_timedelta > 0) =>
        /\ Removal =>
             \/ Removed.location # event.location
             \/ event.time - Removed.time >= max_timedelta
        /\ WindowIsSegment' ]_vars

\* The scan of a location has taken one of that location's own events out of
\* the window, a window that held more than that event.
C16_Witness ==
  /\ ChronologicalPerLocation /\ max_timedelta > 0
  /\ pc = "inner"
  /\ Len(queue) < Appended
  /\ queue # <<>>
  /\ \E k \in 1..(Appended - Len(queue)) :
       ScanOrder[k].location = event.location

\* Input position at which a location first appears.
FirstAppearance(l) ==
  CHOOSE i \in DOMAIN events :
    /\ events[i].location = l
    /\ \A j \in DOMAIN events : events[j].location = l => i <= j

\* Block, then input position of event, then window position of other_event.
OutputKey(c) ==
  <<FirstAppearance(c.event.location), c.event.Index, ScanPosition(c.other_event)>>

LexLess(a, b) ==
  \/ a[1] < b[1]
  \/ a[1] = b[1] /\ a[2] < b[2]
  \/ a[1] = b[1] /\ a[2] = b[2] /\ a[3] < b[3]

\* C18: the returned list is ordered by the location block of event (blocks
\* in order of first appearance of the location in the input), inside a block
\* by the input position of event, and for one event by the window order of
\* other_event; so the records of a location are contiguous and the list is
\* not sorted by time.
C18_OutputOrder ==
  Returned =>
    \A k \in 1..(Len(cooccurrences) - 1) :
      LexLess(OutputKey(cooccurrences[k]), OutputKey(cooccurrences[k + 1]))

\* A returned list with the blocks of two locations.
C18_Witness ==
  /\ Returned
  /\ \E k, l \in DOMAIN cooccurrences :
       cooccurrences[k].event.location # cooccurrences[l].event.location

\* ------------------------------------------------ order of the two lists
\* Input position at which the entity pair of a record is first met.
FirstMet(pair) ==
  CHOOSE i \in DOMAIN cooccurrences :
    /\ EntityPair(cooccurrences[i]) = pair
    /\ \A j \in DOMAIN cooccurrences :
         EntityPair(cooccurrences[j]) = pair => i <= j

\* The records of a pair are contiguous, the pairs come in the order they
\* are first met in the input, and the records of a pair are in
\* non-decreasing order of time.
GroupedAndTimeOrdered(list) ==
  /\ \A i, j, k \in DOMAIN list :
       (i < j /\ j < k /\ EntityPair(list[i]) = EntityPair(list[k]))
         => EntityPair(list[j]) = EntityPair(list[i])
  /\ \A i, j \in DOMAIN list :
       (i < j /\ EntityPair(list[i]) # EntityPair(list[j]))
         => FirstMet(EntityPair(list[i])) < FirstMet(EntityPair(list[j]))
  /\ \A i, j \in DOMAIN list :
       (i < j /\ EntityPair(list[i]) = EntityPair(list[j]))
         => list[i].time <= list[j].time

\* C17: in each of the two returned lists the records of one entity pair are
\* contiguous, the pair groups are in the order their pair was first met in
\* the input, and inside a group the records are in non-decreasing order of
\* time.  Stated for the thresholds that are no configuration error.
C17_GroupsInTimeOrder ==
  (Divided /\ min_timedelta >= 0) =>
    /\ GroupedAndTimeOrdered(systematic)
    /\ GroupedAndTimeOrdered(random)

====
